---- MODULE Spec2Model ----
(***************************************************************************)
(* A model of the editing core of the readline library: the input line,    *)
(* the cursor, the mark and region, the register, the undo bookkeeping     *)
(* and the widgets, selection helpers and Vim motions that act on them.    *)
(*                                                                         *)
(* The editor instance (rl *Instance) is one record, rl.  Every Go method  *)
(* is an operator from an instance record to an instance record (or to a   *)
(* record of its results), so that a method calling another is the         *)
(* composition of the two operators.  Positions are Go's 0-based indexes.  *)
(* A Go run-time panic (an index or a slice bound out of range) ends the   *)
(* call: the instance keeps the fields already written and its fault       *)
(* field names the panic; no operation runs on a faulted instance.         *)
(***************************************************************************)
EXTENDS Integers, Sequences, FiniteSets, TLC

VARIABLES rl, op, pre, out

vars == <<rl, op, pre, out>>

\* ------------------------------------------------------------------ bounds

\* Longest line the selection helpers and the motions are applied to.
MaxLen == 3

\* Longest line typed at the editor.
MaxEdit == 2

\* Most digits of a numeric argument.
MaxDigits == 1

\* Most snapshots the undo stack holds beyond the initial one.
MaxUndo == 1

\* ------------------------------------------------------------- characters

NL == "\n"
SP == " "
QUOTE == "'"
BSLASH == "\\"
LBRACE == "{"

\* Runes typed at the editor (Spec), runes of the lines the selection
\* helpers are applied to (SpecSel), and of the lines the motions read
\* (SpecMotion).
EditChars == {"a", SP}
SelChars == {"a", NL}
MotionChars == {"a", SP, LBRACE}

\* All lines over an alphabet up to a length.
LinesOver(chars, n) == UNION {[1..k -> chars] : k \in 0..n}

\* ------------------------------------------------------------- Go slices

Min(a, b) == IF a < b THEN a ELSE b
Max(a, b) == IF a > b THEN a ELSE b

\* l[b:e] of Go, for bounds Go accepts.
Slice(l, b, e) == SubSeq(l, b + 1, e)

\* l[i] of Go.
At(l, i) == l[i + 1]

\* Whether Go evaluates l[b:e] without a panic.  (Go also accepts
\* len(l) < e <= cap(l); no call of the model relies on spare capacity.)
SliceOK(l, b, e) == 0 <= b /\ b <= e /\ e <= Len(l)

IndexOK(l, i) == 0 <= i /\ i < Len(l)

NoFault == "none"
SliceFault == "slice bounds out of range"
IndexFault == "index out of range"

\* The call f on instance s, unless s has already panicked.
Then(s, f(_)) == IF s.fault # NoFault THEN s ELSE f(s)

Panic(s, what) == [s EXCEPT !.fault = what]

\* ---------------------------------------------------------- the instance

\* Keymaps (rl.main and rl.local).
emacs == "emacs"
viins == "viins"
vicmd == "vicmd"
visual == "visual"
nolocal == ""

\* The instance once a line edit starts: empty line, no mark, the undo
\* stack holding the initial snapshot only.
NewInstance(mainmap) ==
    [line |-> <<>>, pos |-> 0, mark |-> -1, activeRegion |-> FALSE,
     visualLine |-> FALSE, main |-> mainmap, local |-> nolocal,
     register |-> <<>>, iterations |-> <<>>, negativeArg |-> FALSE,
     undoLen |-> 1, undoDecided |-> FALSE, undoLate |-> FALSE,
     histPos |-> 0, lineBuf |-> <<>>,
     history |-> [bound |-> FALSE, items |-> <<>>, failAt |-> -1],
     fault |-> NoFault]

\* Writes of the buffer and of the cursor.  undoLate records that one of
\* them changed the line or the cursor before the running widget had called
\* undoHistoryAppend or skipUndoAppend.
setLine(s, l) ==
    [s EXCEPT !.line = l,
              !.undoLate = s.undoLate \/ (~s.undoDecided /\ l # s.line)]

setPos(s, p) ==
    [s EXCEPT !.pos = p,
              !.undoLate = s.undoLate \/ (~s.undoDecided /\ p # s.pos)]

\* A widget starts: no undo decision made yet.
enter(s) == [s EXCEPT !.undoDecided = FALSE, !.undoLate = FALSE]

\* ----------------------------------------------------------------- undo

undoHistoryAppend(s) ==
    [s EXCEPT !.undoLen = s.undoLen + 1, !.undoDecided = TRUE]

skipUndoAppend(s) == [s EXCEPT !.undoDecided = TRUE]

\* -------------------------------------------------------------- register

saveBufToRegister(s, buf) == [s EXCEPT !.register = buf]

\* ------------------------------------------------------------- selection

markSelection(s, m) == [s EXCEPT !.mark = m, !.activeRegion = TRUE]

resetSelection(s) == [s EXCEPT !.activeRegion = FALSE, !.mark = -1]

\* The loop of visual-line mode over tail = line[epos:]: stop at a newline,
\* otherwise add the index of the rune to epos.
RECURSIVE visualLineScan(_, _, _)
visualLineScan(tail, i, epos) ==
    IF i >= Len(tail) THEN epos
    ELSE IF At(tail, i) = NL THEN epos
    ELSE visualLineScan(tail, i + 1, epos + i)

\* The region before visual-line mode and the clamping are applied.
regionEnds(s) ==
    IF s.mark < s.pos
    THEN [bpos |-> s.mark, epos |-> s.pos + 1]
    ELSE [bpos |-> s.pos, epos |-> s.mark]

\* getSelectionPos: bpos, epos, cpos, and the panic of line[epos:] if any.
getSelectionPos(s) ==
    LET r0 == regionEnds(s)
        n == Len(s.line)
        bad == s.visualLine /\ ~SliceOK(s.line, r0.epos, n)
        b1 == IF s.visualLine THEN 0 ELSE r0.bpos
        e1 == IF s.visualLine /\ ~bad
              THEN visualLineScan(Slice(s.line, r0.epos, n), 0, r0.epos)
              ELSE r0.epos
        e2 == IF e1 > n - 1 THEN n ELSE e1
        b2 == IF b1 < 0 THEN 0 ELSE b1
    IN  [bpos |-> b2, epos |-> e2, cpos |-> b2,
         fault |-> IF bad THEN SliceFault ELSE NoFault]

\* popSelection: the region's text and bounds, and the instance afterwards.
popSelection(s) ==
    LET g == getSelectionPos(s)
        ok == g.fault = NoFault /\ SliceOK(s.line, g.bpos, g.epos)
    IN  [s |-> IF ok THEN Slice(s.line, g.bpos, g.epos) ELSE <<>>,
         bpos |-> g.bpos, epos |-> g.epos, cpos |-> g.cpos,
         rl |-> IF ok THEN resetSelection(s) ELSE Panic(s, SliceFault)]

\* insertBlock keeping the replaced range: the end taken from bpos.
insertBlock_keepsRange(s, bpos, epos, word, surround) ==
    LET w == IF surround # <<>> THEN surround \o word \o surround ELSE word
        n == Len(s.line)
    IN  IF ~SliceOK(s.line, 0, bpos) \/ ~SliceOK(s.line, epos, n)
        THEN Panic(s, SliceFault)
        ELSE setLine(s, Slice(s.line, 0, bpos) \o w \o Slice(s.line, bpos, n))

insertBlock(s, bpos, epos, word, surround) ==
    LET w == IF surround # <<>> THEN surround \o word \o surround ELSE word
        n == Len(s.line)
    IN  IF ~SliceOK(s.line, 0, bpos) \/ ~SliceOK(s.line, epos, n)
        THEN Panic(s, SliceFault)
        ELSE setLine(s, Slice(s.line, 0, bpos) \o w \o Slice(s.line, epos, n))

\* insertSelection: the new instance, with the length inserted and cpos.
insertSelection(s, surround) ==
    LET g == getSelectionPos(s)
        n == Len(s.line)
        ok == g.fault = NoFault /\ SliceOK(s.line, g.bpos, g.epos)
        sel0 == Slice(s.line, g.bpos, g.epos)
        sel == IF surround # <<>> THEN surround \o sel0 \o surround ELSE sel0
    IN  IF ~ok
        THEN [wlen |-> 0, cpos |-> g.cpos, rl |-> Panic(s, SliceFault)]
        ELSE [wlen |-> Len(sel), cpos |-> g.cpos,
              rl |-> resetSelection(
                  setLine(s, Slice(s.line, 0, g.bpos) \o sel
                                \o Slice(s.line, g.epos, n)))]

yankSelection(s) ==
    LET g == getSelectionPos(s)
        ok == g.fault = NoFault /\ SliceOK(s.line, g.bpos, g.epos)
        sel0 == Slice(s.line, g.bpos, g.epos)
        sel == IF s.local = visual /\ s.visualLine
               THEN Append(sel0, NL) ELSE sel0
        s1 == saveBufToRegister(s, sel)
    IN  IF ~ok THEN Panic(s, SliceFault)
        ELSE IF ~s.visualLine THEN setPos(s1, g.cpos) ELSE s1

\* deleteSelection leaving the cursor where it was.
deleteSelection_cursorKept(s) ==
    LET g == getSelectionPos(s)
        n == Len(s.line)
        ok == g.fault = NoFault /\ SliceOK(s.line, g.bpos, g.epos)
        s1 == saveBufToRegister(s, Slice(s.line, g.bpos, g.epos))
        s2 == setLine(s1, Slice(s.line, 0, g.bpos) \o Slice(s.line, g.epos, n))
    IN  IF ~ok THEN Panic(s, SliceFault) ELSE resetSelection(s2)

deleteSelection(s) ==
    LET g == getSelectionPos(s)
        n == Len(s.line)
        ok == g.fault = NoFault /\ SliceOK(s.line, g.bpos, g.epos)
        s1 == saveBufToRegister(s, Slice(s.line, g.bpos, g.epos))
        s2 == setLine(s1, Slice(s.line, 0, g.bpos) \o Slice(s.line, g.epos, n))
    IN  IF ~ok THEN Panic(s, SliceFault)
        ELSE resetSelection(setPos(s2, g.cpos))

\* ----------------------------------------------------------- tokenisers

isBlank(c) == c = SP

rTrimWhiteSpace(w) ==
    LET keep == {k \in 0..Len(w) : \A i \in (k + 1)..Len(w) : isBlank(w[i])}
    IN  SubSeq(w, 1, CHOOSE k \in keep : \A j \in keep : k <= j)

\* The tokens of l cut before the (0-based) indexes in cuts.
RECURSIVE splitAt(_, _, _)
splitAt(l, cuts, from) ==
    IF from >= Len(l) THEN <<>>
    ELSE LET later == {c \in cuts : c > from}
             to == IF later = {} THEN Len(l)
                   ELSE CHOOSE c \in later : \A d \in later : c <= d
         IN  <<Slice(l, from, to)>> \o splitAt(l, cuts, to)

\* Index of the first rune of token k (0-based) of split.
RECURSIVE tokenStart(_, _)
tokenStart(split, k) ==
    IF k = 0 THEN 0 ELSE tokenStart(split, k - 1) + Len(split[k])

\* What a tokeniser may answer for line l and cursor p: tokens that
\* partition l, with an index and an offset that locate p (the token that
\* holds p, or the token that ends at p with the offset at its length); no
\* token, index 0 and offset 0 for an empty line.
tokeniserResults(l, p) ==
    IF Len(l) = 0 THEN {[split |-> <<>>, index |-> 0, pos |-> 0]}
    ELSE UNION {
        LET split == splitAt(l, cuts, 0)
        IN  {[split |-> split, index |-> k, pos |-> p - tokenStart(split, k)] :
                k \in {j \in 0..(Len(split) - 1) :
                          /\ tokenStart(split, j) <= p
                          /\ p <= tokenStart(split, j) + Len(split[j + 1])}}
        : cuts \in SUBSET (1..(Len(l) - 1))}

\* The word tokeniser: a token is a run of word runes, or of punctuation,
\* with the blanks that follow it.
isWordRune(c) == c \in {"a", "b"}

runeClass(c) == IF isBlank(c) \/ c = NL THEN "blank"
                ELSE IF isWordRune(c) THEN "word" ELSE "punct"

wordCuts(l) ==
    {i \in 1..(Len(l) - 1) :
        /\ runeClass(At(l, i)) # "blank"
        /\ runeClass(At(l, i - 1)) # runeClass(At(l, i))}

\* The token and offset of cursor p in a partition: the token holding p,
\* the last token with the offset at its length at the end of the line.
locate(split, p) ==
    IF split = <<>> THEN [split |-> <<>>, index |-> 0, pos |-> 0]
    ELSE LET holds == {j \in 0..(Len(split) - 1) :
                          /\ tokenStart(split, j) <= p
                          /\ p < tokenStart(split, j) + Len(split[j + 1])}
             k == IF holds = {} THEN Len(split) - 1
                  ELSE CHOOSE j \in holds : TRUE
         IN  [split |-> split, index |-> k, pos |-> p - tokenStart(split, k)]

tokeniseLine(l, p) == locate(splitAt(l, wordCuts(l), 0), p)

\* The shell-word tokeniser: a token is a run of non-blank runes with the
\* blanks that follow it.
spaceCuts(l) ==
    {i \in 1..(Len(l) - 1) :
        runeClass(At(l, i)) # "blank" /\ runeClass(At(l, i - 1)) = "blank"}

tokeniseSplitSpaces(l, p) == locate(splitAt(l, spaceCuts(l), 0), p)

\* -------------------------------------------------------------- motions

\* Each motion reads the line and the cursor and returns the offset; t is
\* what the tokeniser passed to it answered for rl.line and rl.pos.

viJumpB(s, t) ==
    IF Len(t.split) = 0 THEN 0
    ELSE IF t.index = 0 /\ t.pos = 0 THEN 0
    ELSE IF t.pos = 0 THEN -Len(t.split[t.index])
    ELSE -t.pos

viJumpE(s, t) ==
    IF Len(t.split) = 0 THEN 0
    ELSE LET word == rTrimWhiteSpace(t.split[t.index + 1])
         IN  IF t.index = Len(t.split) - 1 /\ t.pos >= Len(word) - 1 THEN 0
             ELSE IF t.pos >= Len(word) - 1
             THEN Len(t.split[t.index + 1]) - t.pos
                    + Len(rTrimWhiteSpace(t.split[t.index + 2])) - 1
             ELSE Len(word) - t.pos - 1

\* viJumpW measuring the whole token instead of what is left of it.
viJumpW_wholeToken(s, t) ==
    IF Len(t.split) = 0 THEN 0
    ELSE IF t.index + 1 = Len(t.split) THEN Len(s.line) - s.pos
    ELSE Len(t.split[t.index + 1])

viJumpW(s, t) ==
    IF Len(t.split) = 0 THEN 0
    ELSE IF t.index + 1 = Len(t.split) THEN Len(s.line) - s.pos
    ELSE Len(t.split[t.index + 1]) - t.pos

\* The loop of viJumpPreviousBrace, from index i down to index 1.
RECURSIVE previousBraceFrom(_, _)
previousBraceFrom(s, i) ==
    IF i = 0 THEN 0
    ELSE IF At(s.line, i) = LBRACE THEN i - s.pos
    ELSE previousBraceFrom(s, i - 1)

viJumpPreviousBrace(s) ==
    IF s.pos = 0 THEN 0 ELSE previousBraceFrom(s, s.pos - 1)

RECURSIVE nextBraceFrom(_, _)
nextBraceFrom(s, i) ==
    IF i >= Len(s.line) THEN 0
    ELSE IF At(s.line, i) = LBRACE THEN i - s.pos
    ELSE nextBraceFrom(s, i + 1)

viJumpNextBrace(s) ==
    IF s.pos >= Len(s.line) - 1 THEN 0 ELSE nextBraceFrom(s, s.pos + 1)

\* t is the answer of tokeniseBrackets for rl.line and rl.pos.
viJumpBracket(s, t) ==
    IF Len(t.split) = 0 THEN 0
    ELSE IF t.pos = 0 THEN Len(t.split[t.index + 1])
    ELSE -t.pos

\* ------------------------------------------------------------ iterations

MINUS == "-"
Digits == {"0", "1", "2", "3", "4", "5", "6", "7", "8", "9"}

digitValue(c) == CHOOSE n \in 0..9 : c = (<<"0", "1", "2", "3", "4", "5", "6", "7", "8", "9">>)[n + 1]

\* strconv.Atoi on a string of digits with an optional sign: the value, and
\* whether it parsed (the value is 0 when it did not).
RECURSIVE digitsValue(_)
digitsValue(ds) ==
    IF ds = <<>> THEN 0
    ELSE 10 * digitsValue(SubSeq(ds, 1, Len(ds) - 1)) + digitValue(ds[Len(ds)])

Atoi(str) ==
    LET signed == str # <<>> /\ str[1] = MINUS
        plus == str # <<>> /\ str[1] = "+"
        ds == IF signed \/ plus THEN Tail(str) ELSE str
        ok == ds # <<>> /\ \A i \in 1..Len(ds) : ds[i] \in Digits
    IN  [i |-> IF ~ok THEN 0 ELSE IF signed THEN -digitsValue(ds) ELSE digitsValue(ds),
         err |-> ~ok]

addIteration(s, i) ==
    LET it1 == IF i = <<>> THEN <<>> ELSE s.iterations
        it2 == IF s.negativeArg THEN <<>> ELSE it1
        i2 == IF s.negativeArg THEN <<MINUS>> \o i ELSE i
    IN  [s EXCEPT !.iterations = it2 \o i2, !.negativeArg = FALSE]

\* getIterations giving 1 for every count that is not positive, in Emacs
\* mode as in the Vi modes.
getIterations_emacsClamped(s) ==
    LET a == Atoi(s.iterations)
    IN  [i |-> IF a.i <= 0 THEN 1 ELSE a.i,
         rl |-> [s EXCEPT !.iterations = <<>>]]

\* getIterations: the count, and the instance with the accumulator reset.
getIterations(s) ==
    LET a == Atoi(s.iterations)
        i == IF (s.main # emacs /\ a.i <= 0) \/ (s.main = emacs /\ a.err)
             THEN 1 ELSE a.i
    IN  [i |-> i, rl |-> [s EXCEPT !.iterations = <<>>]]

\* ------------------------------------------------------ cursor and register

\* moveCursorByAdjust: the cursor moved by the offset, kept inside the line.
moveCursorByAdjust(s, adjust) ==
    setPos(s, Max(0, Min(Len(s.line), s.pos + adjust)))

\* saveToRegister: the runes between the cursor and the cursor moved by the
\* offset, as far as the line reaches.
saveToRegister(s, adjust) ==
    LET a == Max(0, Min(s.pos, s.pos + adjust))
        b == Min(Len(s.line), Max(s.pos, s.pos + adjust))
    IN  saveBufToRegister(s, IF a <= b THEN Slice(s.line, a, b) ELSE <<>>)

clearLine(s) == setPos(setLine(s, <<>>), 0)

\* ------------------------------------------------------------- deletion

viDeleteByAdjust(s, adjust) ==
    LET n == Len(s.line)
        after(newLine) ==
            LET s1 == setLine(s, newLine)
            IN  IF adjust < 0 THEN moveCursorByAdjust(s1, adjust) ELSE s1
    IN  IF n = 0 THEN s
        ELSE IF adjust = 0 THEN skipUndoAppend(s)
        ELSE IF s.pos + adjust >= n - 1
        THEN IF SliceOK(s.line, 0, s.pos - 1)
             THEN after(Slice(s.line, 0, s.pos - 1))
             ELSE Panic(s, SliceFault)
        ELSE IF s.pos + adjust = 0
        THEN IF SliceOK(s.line, s.pos, n)
             THEN after(Slice(s.line, s.pos, n))
             ELSE Panic(s, SliceFault)
        ELSE IF adjust < 0
        THEN IF SliceOK(s.line, 0, s.pos + adjust) /\ SliceOK(s.line, s.pos, n)
             THEN after(Slice(s.line, 0, s.pos + adjust) \o Slice(s.line, s.pos, n))
             ELSE Panic(s, SliceFault)
        ELSE IF SliceOK(s.line, 0, s.pos) /\ SliceOK(s.line, s.pos + adjust, n)
             THEN after(Slice(s.line, 0, s.pos) \o Slice(s.line, s.pos + adjust, n))
             ELSE Panic(s, SliceFault)

\* strings.ReplaceAll(l, old, ""), for a non-empty old: every occurrence of
\* old, found from left to right without overlap, removed.
RECURSIVE removeAll(_, _)
removeAll(l, old) ==
    IF Len(l) < Len(old) THEN l
    ELSE IF SubSeq(l, 1, Len(old)) = old
    THEN removeAll(SubSeq(l, Len(old) + 1, Len(l)), old)
    ELSE <<l[1]>> \o removeAll(Tail(l), old)

\* vimDeleteToken on the rune with code point r: whether it deleted, and the
\* instance afterwards.
vimDeleteToken(s, r) ==
    LET tokens == tokeniseSplitSpaces(s.line, 0).split
        n == r - 48
        newLine == removeAll(s.line, tokens[n])
        s1 == setLine(s, newLine)
    IN  IF n > Len(tokens) THEN [ok |-> FALSE, rl |-> s]
        ELSE IF ~IndexOK(tokens, n - 1)
        THEN [ok |-> FALSE, rl |-> Panic(s, IndexFault)]
        ELSE IF newLine = s.line THEN [ok |-> FALSE, rl |-> s]
        ELSE [ok |-> TRUE,
              rl |-> IF s1.pos > Len(s1.line)
                     THEN setPos(s1, Len(s1.line) - 1) ELSE s1]

\* -------------------------------------------------------------- widgets

\* selfInsert with rl.keys holding the printable runes r.
selfInsert(s0, r) ==
    LET s == skipUndoAppend(s0)
        n == Len(s.line)
        s1 == IF n = 0 THEN setLine(s, r)
              ELSE IF s.pos < n
              THEN IF SliceOK(s.line, s.pos, n)
                   THEN setLine(s, Slice(s.line, 0, s.pos) \o r
                                      \o Slice(s.line, s.pos, n))
                   ELSE Panic(s, SliceFault)
              ELSE IF s.pos = n THEN setLine(s, s.line \o r)
              ELSE s
    IN  Then(s1, LAMBDA x : setPos(x, x.pos + Len(r)))

beginningOfLine(s) == setPos(skipUndoAppend(s), 0)

endOfLine(s) ==
    skipUndoAppend(IF Len(s.line) > 0 THEN setPos(s, Len(s.line)) ELSE s)

killLine(s0) ==
    LET s == undoHistoryAppend(s0)
    IN  IF ~SliceOK(s.line, s.pos, Len(s.line)) THEN Panic(s, SliceFault)
        ELSE addIteration(
                 setLine(saveBufToRegister(s, Slice(s.line, s.pos, Len(s.line))),
                         Slice(s.line, 0, s.pos)),
                 <<>>)

killWholeLine(s0) ==
    LET s == undoHistoryAppend(s0)
    IN  IF Len(s.line) = 0 THEN s
        ELSE clearLine(saveBufToRegister(s, s.line))

backwardKillWord(s0) ==
    LET s == skipUndoAppend(undoHistoryAppend(s0))
        s1 == saveToRegister(s, viJumpB(s, tokeniseLine(s.line, s.pos)))
    IN  viDeleteByAdjust(s1, viJumpB(s1, tokeniseLine(s1.line, s1.pos)))

\* saveToRegisterTokenize(tokeniseLine, viJumpE, 1): the runes from the
\* cursor to the end of the word, that one included.
saveToRegisterTokenize(s) ==
    saveToRegister(s, viJumpE(s, tokeniseLine(s.line, s.pos)) + 1)

killWord(s0) ==
    LET s == saveToRegisterTokenize(undoHistoryAppend(s0))
    IN  viDeleteByAdjust(s, viJumpE(s, tokeniseLine(s.line, s.pos)) + 1)

forwardChar(s0) ==
    LET s == skipUndoAppend(s0)
    IN  IF s.pos < Len(s.line) THEN setPos(s, s.pos + 1) ELSE s

backwardChar(s0) ==
    LET s == skipUndoAppend(s0)
    IN  IF s.pos > 0 THEN setPos(s, s.pos - 1) ELSE s

RECURSIVE repeatJumpW(_, _)
repeatJumpW(s, k) ==
    IF k <= 0 THEN s
    ELSE repeatJumpW(
             moveCursorByAdjust(s, viJumpW(s, tokeniseLine(s.line, s.pos))),
             k - 1)

forwardWord(s0) ==
    LET s == skipUndoAppend(s0)
        g == getIterations(s)
    IN  IF s.pos = 0 /\ Len(s.line) = 0 THEN s ELSE repeatJumpW(g.rl, g.i)

RECURSIVE repeatJumpB(_, _)
repeatJumpB(s, k) ==
    IF k <= 0 THEN s
    ELSE repeatJumpB(
             moveCursorByAdjust(s, viJumpB(s, tokeniseLine(s.line, s.pos))),
             k - 1)

backwardWord(s0) ==
    LET g == getIterations(skipUndoAppend(s0))
    IN  repeatJumpB(g.rl, g.i)

\* digitArgument with rl.keys holding one digit.
digitArgument(s, key) == addIteration(skipUndoAppend(s), <<key>>)

negArgument(s) == [s EXCEPT !.negativeArg = TRUE]

\* deleteX: the rune before the cursor removed and the cursor moved back
\* onto its place; the first rune removed when the cursor is at 0.
deleteX(s) ==
    LET n == Len(s.line)
    IN  IF n = 0 THEN s
        ELSE IF s.pos = 0 THEN setLine(s, Slice(s.line, 1, n))
        ELSE IF s.pos > n THEN setPos(s, n)
        ELSE setPos(setLine(s, Slice(s.line, 0, s.pos - 1) \o Slice(s.line, s.pos, n)),
                    s.pos - 1)

\* isBracket and rl.matches: an opening bracket or quote, and the rune that
\* closes it.
isSurroundRune(c) == c \in {LBRACE, "(", "[", "'", QUOTE}

matches(first, second) ==
    \/ first = LBRACE /\ second = "}"
    \/ first = "(" /\ second = ")"
    \/ first = "[" /\ second = "]"
    \/ first \in {"'", QUOTE} /\ second = first

\* The loop of backwardDeleteChar, k deletions left.
RECURSIVE backwardDeleteLoop(_, _)
backwardDeleteLoop(s, k) ==
    IF k <= 0 \/ s.fault # NoFault THEN s
    ELSE LET inside == s.pos > 0 /\ Len(s.line) > s.pos
             pair == inside /\ isSurroundRune(At(s.line, s.pos - 1))
                           /\ matches(At(s.line, s.pos - 1), At(s.line, s.pos))
             s1 == deleteX(s)
             s2 == IF pair THEN deleteX(setPos(s1, s1.pos + 1)) ELSE s1
         IN  backwardDeleteLoop(s2, k - 1)

backwardDeleteChar(s0) ==
    LET g == getIterations(undoHistoryAppend(s0))
        s1 == backwardDeleteLoop(saveToRegister(g.rl, g.i), g.i)
    IN  IF s1.main = viins \/ s1.main = emacs THEN skipUndoAppend(s1) ELSE s1

\* The backspace key read by overwriteMode.
BACKSPACE == "BS"

\* overwriteMode reading the keys (replacement runes and backspaces), then
\* escape.
RECURSIVE overwriteKeys(_, _)
overwriteKeys(s, keys) ==
    IF keys = <<>> \/ s.fault # NoFault THEN s
    ELSE LET key == Head(keys)
             s1 == IF Len(s.line) - 1 < s.pos THEN setLine(s, Append(s.line, key))
                   ELSE IF IndexOK(s.line, s.pos)
                   THEN setLine(s, [s.line EXCEPT ![s.pos + 1] = key])
                   ELSE Panic(s, IndexFault)
         IN  IF key = BACKSPACE
             THEN overwriteKeys(backwardDeleteChar(s), Tail(keys))
             ELSE overwriteKeys(Then(s1, LAMBDA x : setPos(x, x.pos + 1)),
                                Tail(keys))

overwriteMode(s, keys) == overwriteKeys(undoHistoryAppend(s), keys)

setMarkCommand(s0) ==
    LET g == getIterations(skipUndoAppend(s0))
    IN  IF g.i < 0 THEN [resetSelection(g.rl) EXCEPT !.visualLine = FALSE]
        ELSE [g.rl EXCEPT !.mark = g.rl.pos]

quoteRegion(s0) ==
    LET r == insertSelection(undoHistoryAppend(s0), <<QUOTE>>)
    IN  Then(r.rl, LAMBDA x : setPos(x, r.cpos + 1))

\* The runes of l up to its first newline, each quote escaped.
RECURSIVE quoteRunes(_)
quoteRunes(l) ==
    IF l = <<>> \/ Head(l) = NL THEN <<>>
    ELSE (IF Head(l) = QUOTE THEN <<BSLASH, QUOTE>> ELSE <<Head(l)>>)
            \o quoteRunes(Tail(l))

quoteLine(s) == setLine(s, <<QUOTE>> \o quoteRunes(s.line) \o <<QUOTE>>)

copyRegionAsKill(s) ==
    Then(yankSelection(skipUndoAppend(s)), resetSelection)

killRegion(s) == deleteSelection(undoHistoryAppend(s))

exchangePointAndMark(s0) ==
    LET g == getIterations(skipUndoAppend(s0))
        s == g.rl
        swapped == [setPos(s, s.mark) EXCEPT !.mark = s.pos]
    IN  IF s.mark = -1 THEN s
        ELSE IF g.i < 0 THEN swapped
        ELSE IF g.i > 0 THEN [swapped EXCEPT !.activeRegion = TRUE]
        ELSE [s EXCEPT !.activeRegion = TRUE]

\* l with the runes at indexes i and j exchanged.
swapRunes(l, i, j) == [l EXCEPT ![i + 1] = l[j + 1], ![j + 1] = l[i + 1]]

transposeChars(s) ==
    IF s.pos < 2 \/ Len(s.line) < 2 THEN skipUndoAppend(s)
    ELSE IF s.pos = Len(s.line)
    THEN setLine(s, swapRunes(s.line, s.pos - 2, s.pos - 1))
    ELSE IF IndexOK(s.line, s.pos)
    THEN setLine(s, swapRunes(s.line, s.pos - 1, s.pos))
    ELSE Panic(s, IndexFault)

\* ------------------------------------------------ results of the last call

NoOut ==
    [bpos |-> 0, epos |-> 0, cpos |-> 0, s |-> <<>>, adjust |-> 0,
     word |-> <<>>, surround |-> <<>>, fault |-> NoFault,
     ok |-> FALSE, r |-> 0]

\* One call of a helper or of a motion on the instance a specification
\* starts from; pre keeps that instance and out the arguments and results.
Call(name, s2, o) ==
    /\ op = "init"
    /\ rl' = s2
    /\ op' = name
    /\ out' = o
    /\ UNCHANGED pre

\* --------------- Spec: the widgets of standardWidgets, from an empty line

Init ==
    /\ rl = NewInstance(emacs)
    /\ pre = rl
    /\ op = "init"
    /\ out = NoOut

\* The instances the model builds: the line, the cursor, the numeric
\* argument and the undo stack within the bounds.
InModel(s) ==
    /\ Len(s.line) <= MaxEdit
    /\ s.pos <= MaxEdit
    /\ Len(SelectSeq(s.iterations, LAMBDA c : c # MINUS)) <= MaxDigits
    /\ s.undoLen <= 1 + MaxUndo

\* One widget run by the dispatcher on an instance that has not panicked
\* (Ready).
Ready == rl.fault = NoFault

Run(w(_)) ==
    /\ rl' = w(enter(rl))
    /\ InModel(rl')
    /\ UNCHANGED <<op, pre, out>>

\* One helper called by a Vim command, which has made its undo decision.
decided(s) == [s EXCEPT !.undoDecided = TRUE, !.undoLate = FALSE]

RunHelper(w(_)) ==
    /\ rl' = w(decided(rl))
    /\ InModel(rl')
    /\ UNCHANGED <<op, pre, out>>

SelfInsert ==
    \E c \in EditChars : Ready /\ Run(LAMBDA s : selfInsert(s, <<c>>))

BeginningOfLine == Ready /\ Run(beginningOfLine)

EndOfLine == Ready /\ Run(endOfLine)

KillLine == Ready /\ Run(killLine)

KillWholeLine == Ready /\ Run(killWholeLine)

BackwardKillWord == Ready /\ Run(backwardKillWord)

KillWord == Ready /\ Run(killWord)

ForwardChar == Ready /\ Run(forwardChar)

BackwardChar == Ready /\ Run(backwardChar)

ForwardWord == Ready /\ Run(forwardWord)

BackwardWord == Ready /\ Run(backwardWord)

DigitArgument ==
    \E d \in {"0", "1"} : Ready /\ Run(LAMBDA s : digitArgument(s, d))

NegArgument == Ready /\ Run(negArgument)

OverwriteMode ==
    \E keys \in LinesOver({"a"}, 2) :
        Ready /\ Run(LAMBDA s : overwriteMode(s, keys))

SetMarkCommand == Ready /\ Run(setMarkCommand)

ExchangePointAndMark == Ready /\ Run(exchangePointAndMark)

QuoteRegion == Ready /\ Run(quoteRegion)

QuoteLine == Ready /\ Run(quoteLine)

TransposeChars == Ready /\ Run(transposeChars)

CopyRegionAsKill == Ready /\ Run(copyRegionAsKill)

KillRegion == Ready /\ Run(killRegion)

\* The Vim commands that delete by a motion call viDeleteByAdjust with the
\* offset of the motion, which keeps pos + adjust inside the line.
ViDeleteByAdjust ==
    \E d \in (-MaxEdit)..MaxEdit :
        /\ 0 <= rl.pos + d /\ rl.pos + d <= Len(rl.line)
        /\ Ready
        /\ RunHelper(LAMBDA s : viDeleteByAdjust(s, d))

VimDeleteToken ==
    \E r \in 49..50 : Ready /\ RunHelper(LAMBDA s : vimDeleteToken(s, r).rl)

\* deleteSelection called on the instance (by the Vim delete commands).
DeleteSelection == Ready /\ RunHelper(deleteSelection)

Next ==
    \/ SelfInsert
    \/ BeginningOfLine
    \/ EndOfLine
    \/ KillLine
    \/ KillWholeLine
    \/ BackwardKillWord
    \/ KillWord
    \/ ForwardChar
    \/ BackwardChar
    \/ ForwardWord
    \/ BackwardWord
    \/ DigitArgument
    \/ NegArgument
    \/ OverwriteMode
    \/ SetMarkCommand
    \/ ExchangePointAndMark
    \/ QuoteRegion
    \/ QuoteLine
    \/ TransposeChars
    \/ CopyRegionAsKill
    \/ KillRegion

Spec == Init /\ [][Next]_vars

\* ------ SpecCursor: the widgets and helpers that move the cursor or delete

NextCursor ==
    \/ SelfInsert
    \/ ForwardChar
    \/ BackwardChar
    \/ BeginningOfLine
    \/ EndOfLine
    \/ KillLine
    \/ ViDeleteByAdjust
    \/ DeleteSelection
    \/ VimDeleteToken
    \/ ExchangePointAndMark
    \/ OverwriteMode

SpecCursor == Init /\ [][NextCursor]_vars

\* C1: in every state reached from the empty line by selfInsert,
\* forwardChar, backwardChar, beginningOfLine, endOfLine, killLine,
\* viDeleteByAdjust (with 0 <= pos + d <= len), deleteSelection,
\* vimDeleteToken, exchangePointAndMark and overwrite-mode input, the
\* cursor is inside the line: 0 <= pos <= len(line).
C1_CursorInLine == 0 <= rl.pos /\ rl.pos <= Len(rl.line)

\* C5: a widget makes its undo decision (undoHistoryAppend or
\* skipUndoAppend) before it first changes the line or the cursor.
C5_UndoDecisionFirst == ~rl.undoLate

\* ------------------------- SpecDelete: the deletions by offset on any line

InitDelete ==
    /\ rl \in {[NewInstance(emacs) EXCEPT !.line = l, !.pos = p] :
                  l \in LinesOver(EditChars, MaxLen) \ {<<>>}, p \in 0..MaxLen}
    /\ rl.pos <= Len(rl.line)
    /\ pre = rl
    /\ op = "init"
    /\ out = NoOut

CallViDeleteByAdjust ==
    \E d \in (-MaxLen)..MaxLen :
        /\ 0 <= rl.pos + d /\ rl.pos + d <= Len(rl.line)
        /\ Call("viDeleteByAdjust", viDeleteByAdjust(rl, d),
                [NoOut EXCEPT !.adjust = d])

CallKillWord ==
    Call("killWord", killWord(rl),
         [NoOut EXCEPT !.adjust = viJumpE(rl, tokeniseLine(rl.line, rl.pos)) + 1])

CallBackwardKillWord ==
    Call("backwardKillWord", backwardKillWord(rl),
         [NoOut EXCEPT !.adjust = viJumpB(rl, tokeniseLine(rl.line, rl.pos))])

NextDelete ==
    \/ CallViDeleteByAdjust
    \/ CallKillWord
    \/ CallBackwardKillWord

SpecDelete == InitDelete /\ [][NextDelete]_vars

\* C2: viDeleteByAdjust, on every non-empty line, cursor 0..len and offset
\* d with 0 <= pos + d <= len (those of kill-word included), completes
\* without an index or a slice bound out of range.
C2_DeleteByAdjustInBounds ==
    op \in {"viDeleteByAdjust", "killWord", "backwardKillWord"} =>
        rl.fault = NoFault

\* ------------------------------ SpecSel: the selection helpers on any state

SelInstances ==
    {[NewInstance(emacs) EXCEPT !.line = l, !.pos = p, !.mark = m,
                                !.activeRegion = (m # -1),
                                !.visualLine = v, !.local = k,
                                !.register = <<"b">>] :
        l \in LinesOver(SelChars, MaxLen), p \in 0..MaxLen,
        m \in -1..MaxLen, v \in BOOLEAN, k \in {nolocal, visual}}

InitSel ==
    /\ rl \in {s \in SelInstances :
                  s.pos <= Len(s.line) /\ s.mark <= Len(s.line)}
    /\ pre = rl
    /\ op = "init"
    /\ out = NoOut

CallGetSelectionPos ==
    LET g == getSelectionPos(rl)
    IN  Call("getSelectionPos",
             IF g.fault = NoFault THEN rl ELSE Panic(rl, g.fault),
             [NoOut EXCEPT !.bpos = g.bpos, !.epos = g.epos, !.cpos = g.cpos])

CallPopSelection ==
    LET r == popSelection(rl)
    IN  Call("popSelection", r.rl,
             [NoOut EXCEPT !.bpos = r.bpos, !.epos = r.epos, !.cpos = r.cpos,
                           !.s = r.s])

CallResetSelection == Call("resetSelection", resetSelection(rl), NoOut)

CallMarkSelection ==
    \E m \in 0..Len(rl.line) :
        Call("markSelection", markSelection(rl, m), NoOut)

CallInsertBlock ==
    \E b \in 0..Len(rl.line) : \E e \in b..Len(rl.line) :
    \E w \in {<<>>, <<"b">>, <<"b", "a">>} : \E sur \in {<<>>, <<"a">>} :
        Call("insertBlock", insertBlock(rl, b, e, w, sur),
             [NoOut EXCEPT !.bpos = b, !.epos = e, !.word = w,
                           !.surround = sur])

CallYankSelection == Call("yankSelection", yankSelection(rl), NoOut)

CallDeleteSelection == Call("deleteSelection", deleteSelection(rl), NoOut)

NextSel ==
    \/ CallGetSelectionPos
    \/ CallPopSelection
    \/ CallResetSelection
    \/ CallMarkSelection
    \/ CallInsertBlock
    \/ CallYankSelection
    \/ CallDeleteSelection

SpecSel == InitSel /\ [][NextSel]_vars

\* ------------------------------------ SpecMotion: the motions on any line

InitMotion ==
    /\ rl \in {[NewInstance(vicmd) EXCEPT !.line = l, !.pos = p] :
                  l \in LinesOver(MotionChars, MaxLen), p \in 0..MaxLen}
    /\ rl.pos <= Len(rl.line)
    /\ pre = rl
    /\ op = "init"
    /\ out = NoOut

CallViJumpB ==
    \E t \in tokeniserResults(rl.line, rl.pos) :
        Call("viJumpB", rl, [NoOut EXCEPT !.adjust = viJumpB(rl, t)])

CallViJumpE ==
    \E t \in tokeniserResults(rl.line, rl.pos) :
        Call("viJumpE", rl, [NoOut EXCEPT !.adjust = viJumpE(rl, t)])

CallViJumpW ==
    \E t \in tokeniserResults(rl.line, rl.pos) :
        Call("viJumpW", rl, [NoOut EXCEPT !.adjust = viJumpW(rl, t)])

CallViJumpPreviousBrace ==
    Call("viJumpPreviousBrace", rl,
         [NoOut EXCEPT !.adjust = viJumpPreviousBrace(rl)])

CallViJumpNextBrace ==
    Call("viJumpNextBrace", rl, [NoOut EXCEPT !.adjust = viJumpNextBrace(rl)])

CallViJumpBracket ==
    \E t \in tokeniserResults(rl.line, rl.pos) :
        Call("viJumpBracket", rl, [NoOut EXCEPT !.adjust = viJumpBracket(rl, t)])

NextMotion ==
    \/ CallViJumpB
    \/ CallViJumpE
    \/ CallViJumpW
    \/ CallViJumpPreviousBrace
    \/ CallViJumpNextBrace
    \/ CallViJumpBracket

SpecMotion == InitMotion /\ [][NextMotion]_vars

Motions ==
    {"viJumpB", "viJumpE", "viJumpW", "viJumpPreviousBrace",
     "viJumpNextBrace", "viJumpBracket"}

RegionBegin(s) == IF s.mark < s.pos THEN Max(s.mark, 0) ELSE s.pos
RegionEnd(s) == IF s.mark < s.pos THEN Min(s.pos + 1, Len(s.line)) ELSE s.mark

\* Index of the first newline of l at or after k, Len(l) when there is none.
FirstNewlineFrom(l, k) ==
    LET at == {i \in 0..(Len(l) - 1) : i >= k /\ At(l, i) = NL}
    IN  IF at = {} THEN Len(l) ELSE CHOOSE i \in at : \A j \in at : i <= j

\* Index of the first rune of the line of l that holds position p.
LineStart(l, p) ==
    LET at == {i \in 0..(Len(l) - 1) : i < p /\ At(l, i) = NL}
    IN  IF at = {} THEN 0 ELSE 1 + CHOOSE i \in at : \A j \in at : j <= i

\* C3: for every line, cursor 0..len, mark -1..len and either value of the
\* visual-line flag, getSelectionPos completes and returns
\* 0 <= bpos <= epos <= len(line) with cpos = bpos.
C3_SelectionPosInBounds ==
    op = "getSelectionPos" =>
        /\ rl.fault = NoFault
        /\ 0 <= out.bpos /\ out.bpos <= out.epos /\ out.epos <= Len(pre.line)
        /\ out.cpos = out.bpos

\* C6: deleteSelection outside visual-line mode leaves the register holding
\* old[bpos:epos], the line old[:bpos] ++ old[epos:], the cursor at bpos,
\* the mark at -1 and the region inactive.
C6_DeleteSelection ==
    (op = "deleteSelection" /\ ~pre.visualLine) =>
        LET b == RegionBegin(pre)
            e == RegionEnd(pre)
        IN  /\ rl.fault = NoFault
            /\ rl.register = Slice(pre.line, b, e)
            /\ rl.line = Slice(pre.line, 0, b) \o Slice(pre.line, e, Len(pre.line))
            /\ rl.pos = b
            /\ rl.mark = -1
            /\ ~rl.activeRegion

\* A deletion of a region of two runes or more that starts at the mark,
\* after the first rune of the line.
C6_Witness ==
    /\ op = "deleteSelection" /\ ~pre.visualLine
    /\ 0 < pre.mark /\ pre.mark < pre.pos /\ pre.pos < Len(pre.line)
    /\ Len(rl.register) >= 2
    /\ rl.line # pre.line

\* C7: popSelection returns line[bpos:epos] for the bounds of
\* getSelectionPos and leaves line and cursor as they were; after it, and
\* after resetSelection, the mark is -1 and the region inactive.
C7_PopSelection ==
    /\ op = "popSelection" =>
        /\ rl.fault = NoFault
        /\ out.s = Slice(pre.line, out.bpos, out.epos)
        /\ out.bpos = getSelectionPos(pre).bpos
        /\ out.epos = getSelectionPos(pre).epos
        /\ rl.line = pre.line /\ rl.pos = pre.pos
        /\ rl.mark = -1 /\ ~rl.activeRegion
    /\ op = "resetSelection" => rl.mark = -1 /\ ~rl.activeRegion

\* C8: insertBlock(bpos, epos, text, surround) with 0 <= bpos <= epos <= len
\* leaves the line old[:bpos] ++ surround ++ text ++ surround ++ old[epos:]
\* and the cursor, mark, register and undo stack unchanged.
C8_InsertBlock ==
    op = "insertBlock" =>
        /\ rl.fault = NoFault
        /\ rl.line = Slice(pre.line, 0, out.bpos) \o out.surround \o out.word
                        \o out.surround
                        \o Slice(pre.line, out.epos, Len(pre.line))
        /\ rl.pos = pre.pos /\ rl.mark = pre.mark
        /\ rl.activeRegion = pre.activeRegion
        /\ rl.register = pre.register
        /\ rl.undoLen = pre.undoLen

\* A wrapped, non-empty text replacing a non-empty range inside the line.
C8_Witness ==
    /\ op = "insertBlock"
    /\ 0 < out.bpos /\ out.bpos < out.epos /\ out.epos < Len(pre.line)
    /\ out.surround # <<>> /\ Len(out.word) = 2
    /\ Len(rl.line) = Len(pre.line) - (out.epos - out.bpos) + 4

\* C9: a yankSelection that completes leaves line and mark unchanged, sets
\* the register to line[bpos:epos] followed by a newline whenever the
\* visual-line flag is set, whatever the local keymap, and sets the cursor
\* to cpos exactly when the flag is not set.
C9_YankSelection ==
    (op = "yankSelection" /\ rl.fault = NoFault) =>
        LET g == getSelectionPos(pre)
            sel == Slice(pre.line, g.bpos, g.epos)
        IN  /\ rl.line = pre.line /\ rl.mark = pre.mark
            /\ rl.register = IF pre.visualLine THEN Append(sel, NL) ELSE sel
            /\ rl.pos = IF pre.visualLine THEN pre.pos ELSE g.cpos

\* C10: in visual-line mode a getSelectionPos that completes returns bpos at
\* the start of the current line and epos at the first newline at or after
\* the end of the plain region, or at len(line) when there is none.
C10_VisualLineRegion ==
    (op = "getSelectionPos" /\ pre.visualLine /\ rl.fault = NoFault) =>
        /\ out.bpos = LineStart(pre.line, pre.pos)
        /\ out.epos = FirstNewlineFrom(pre.line, regionEnds(pre).epos)

\* ------------------------- SpecToken: vimDeleteToken on any line and rune

InitToken ==
    /\ rl \in {[NewInstance(vicmd) EXCEPT !.line = l, !.pos = p, !.mark = m,
                                          !.register = g] :
                  l \in LinesOver(EditChars, MaxLen), p \in 0..MaxLen,
                  m \in {-1, 0}, g \in {<<>>, <<"b">>}}
    /\ rl.pos <= Len(rl.line)
    /\ pre = rl
    /\ op = "init"
    /\ out = NoOut

\* The runes '0' to '3': the digit the spec excludes, and digits up to and
\* past the number of tokens of a line.
CallVimDeleteToken ==
    \E r \in 48..51 :
        LET d == vimDeleteToken(rl, r)
        IN  Call("vimDeleteToken", d.rl, [NoOut EXCEPT !.ok = d.ok, !.r = r])

NextToken == CallVimDeleteToken

SpecToken == InitToken /\ [][NextToken]_vars

\* C11: vimDeleteToken never fails with an index out of range, whatever the
\* rune ('0' included), and when it reports a no-op the line, the cursor,
\* the mark and the register are as they were before the call.
C11_DeleteTokenNoOp ==
    op = "vimDeleteToken" =>
        /\ rl.fault = NoFault
        /\ ~out.ok =>
              /\ rl.line = pre.line /\ rl.pos = pre.pos
              /\ rl.mark = pre.mark /\ rl.register = pre.register

\* The line without the first occurrence of old.
RECURSIVE removeFirst(_, _)
removeFirst(l, old) ==
    IF Len(l) < Len(old) THEN l
    ELSE IF SubSeq(l, 1, Len(old)) = old
    THEN SubSeq(l, Len(old) + 1, Len(l))
    ELSE <<l[1]>> \o removeFirst(Tail(l), old)

\* C12: when vimDeleteToken succeeds for digit n the new line is the old one
\* with the first occurrence of the n-th token's text removed and nothing
\* else, so the line is shorter by the length of the token.
C12_DeleteTokenFirstOccurrence ==
    (op = "vimDeleteToken" /\ out.ok) =>
        LET token == tokeniseSplitSpaces(pre.line, 0).split[out.r - 48]
        IN  /\ rl.line = removeFirst(pre.line, token)
            /\ Len(rl.line) = Len(pre.line) - Len(token)

\* ------------------------------------------------------------- history

\* A rune of two bytes in UTF-8 (U+00E9); every other rune of the model
\* takes one byte.
EACUTE == "E"

utf8Len(c) == IF c = EACUTE THEN 2 ELSE 1

\* len(str) of a Go string: its length in bytes.
RECURSIVE byteLen(_)
byteLen(str) == IF str = <<>> THEN 0 ELSE utf8Len(Head(str)) + byteLen(Tail(str))

\* The first history source: bound or not (nil), its lines from the oldest
\* to the most recent, and the index at which the backend fails (-1: none).
currentHistory(s) == s.history

historyLen(h) == Len(h.items)

\* History.GetLine: the error of fileHistory.GetLine for an index outside
\* the list, the error of the backend at failAt, the line otherwise.
GetLine(h, i) ==
    IF i < 0 THEN [err |-> TRUE, line |-> <<>>]
    ELSE IF i >= Len(h.items) \/ i = h.failAt THEN [err |-> TRUE, line |-> <<>>]
    ELSE [err |-> FALSE, line |-> At(h.items, i)]

\* resetHelpers leaves the line and the cursor alone.
resetHelpers(s) == s

\* walkHistory clearing the line before it asks the history for the entry.
walkHistory_clearsFirst(s, pos) ==
    LET history == currentHistory(s)
        s3 == clearLine([s EXCEPT !.histPos =
                            Max(0, Min(historyLen(history), s.histPos + pos))])
        got == GetLine(history, historyLen(history) - s3.histPos)
    IN  IF ~history.bound \/ historyLen(history) = 0 THEN s
        ELSE IF s3.histPos > 0 /\ ~got.err
        THEN setPos(setLine(s3, got.line), Len(got.line))
        ELSE s3

\* walkHistory with no upper limit on the history index.
walkHistoryIndex_unlimited(s, pos) ==
    LET s2 == [s EXCEPT !.histPos = s.histPos + pos]
    IN  IF s2.histPos < 0 THEN [s2 EXCEPT !.histPos = 0] ELSE s2

\* walkHistory up to the end of its switch: the in-progress line saved, the
\* history index moved and brought back between 0 and Len.
walkHistoryIndex(s, pos) ==
    LET history == currentHistory(s)
        s1 == IF s.histPos = 0 /\ s.histPos + pos = 1
              THEN [s EXCEPT !.lineBuf = s.line] ELSE s
        s2 == [s1 EXCEPT !.histPos = s1.histPos + pos]
    IN  IF s2.histPos > historyLen(history)
        THEN [s2 EXCEPT !.histPos = historyLen(history)]
        ELSE IF s2.histPos < 0 THEN [s2 EXCEPT !.histPos = 0]
        ELSE IF s2.histPos = 0
        THEN setPos(setLine(s2, s2.lineBuf), byteLen(s2.lineBuf))
        ELSE s2

walkHistory(s, pos) ==
    LET history == currentHistory(s)
        s3 == walkHistoryIndex(s, pos)
        got == GetLine(history, historyLen(history) - s3.histPos)
    IN  IF ~history.bound \/ historyLen(history) = 0 THEN s
        ELSE IF s3.histPos > 0
        THEN IF got.err THEN resetHelpers(s3)
             ELSE LET s4 == setLine(clearLine(s3), got.line)
                  IN  setPos(s4, Len(s4.line))
        ELSE s3

\* ---------------------------- SpecHistory: walks through the first history

MaxHist == 2

HistChars == {"a", EACUTE}

HistLines == {<<>>, <<"b">>, <<EACUTE, "c">>}

Histories ==
    {[bound |-> b, items |-> it, failAt |-> f] :
        b \in BOOLEAN, it \in LinesOver(HistLines, MaxHist),
        f \in -1..(MaxHist - 1)}

\* A line edit in progress at index 0 of the history; out.ok tells whether
\* the navigation has left index 0 since, and pre is the instance it last
\* left index 0 from.
InitHistory ==
    /\ rl \in {[NewInstance(emacs) EXCEPT !.line = l, !.pos = p,
                                          !.history = h] :
                  l \in LinesOver(HistChars, MaxEdit), p \in 0..MaxEdit,
                  h \in Histories}
    /\ rl.pos <= Len(rl.line)
    /\ rl.history.failAt < Len(rl.history.items)
    /\ (rl.history.bound \/ (rl.history.items = <<>> /\ rl.history.failAt = -1))
    /\ pre = rl
    /\ op = "init"
    /\ out = NoOut

WalkHistory(pos) ==
    LET s2 == walkHistory(rl, pos)
        left == rl.histPos = 0 /\ s2.histPos > 0
        o == [NoOut EXCEPT !.adjust = pos, !.ok = out.ok \/ left,
                           !.bpos = rl.pos, !.s = rl.line,
                           !.fault = IF s2.histPos > 0
                                        /\ GetLine(s2.history,
                                             historyLen(s2.history) - s2.histPos).err
                                     THEN "GetLine" ELSE NoFault]
    IN  /\ rl.fault = NoFault
        /\ rl' = s2
        /\ op' = "walkHistory"
        /\ out' = o
        /\ pre' = IF left THEN rl ELSE pre

WalkOlder == WalkHistory(1)

WalkNewer == WalkHistory(-1)

NextHistory == WalkOlder \/ WalkNewer

SpecHistory == InitHistory /\ [][NextHistory]_vars

\* C13: with a non-empty history whose entries can all be retrieved, after
\* any walks from index 0: at histPos = k > 0 the line is the k-th most
\* recent entry and the cursor is at its end; back at histPos = 0 the line
\* is the one navigation last left index 0 with, and the cursor is at its
\* end.
C13_WalkHistory ==
    LET h == rl.history
        N == Len(h.items)
    IN  (op = "walkHistory" /\ h.bound /\ N > 0 /\ h.failAt = -1) =>
            /\ rl.histPos \in 0..N
            /\ rl.histPos > 0 =>
                  /\ rl.line = At(h.items, N - rl.histPos)
                  /\ rl.pos = Len(rl.line)
            /\ (rl.histPos = 0 /\ out.ok) =>
                  /\ rl.line = pre.line
                  /\ rl.pos = Len(rl.line)

\* C14: when GetLine returns an error during walkHistory, the line and the
\* cursor after the call are those before the call.
C14_GetLineError ==
    (op = "walkHistory" /\ out.fault = "GetLine") =>
        /\ rl.line = out.s
        /\ rl.pos = out.bpos

\* A walk on which GetLine failed, from a line that is not empty.
C14_Witness ==
    /\ op = "walkHistory"
    /\ out.fault = "GetLine"
    /\ out.s # <<>>
    /\ rl.histPos > 0

\* ------------------------ SpecIter: the numeric argument and its accumulator

MaxIter == 2

IterChars == {"0", "1", "2", MINUS, "+", "x"}

\* Any accumulator, any main keymap, the negative-argument flag pending or
\* not; pre is the instance before the last call.
InitIter ==
    /\ rl \in {[NewInstance(k) EXCEPT !.iterations = a, !.negativeArg = g] :
                  k \in {emacs, viins, vicmd},
                  a \in LinesOver(IterChars, MaxIter), g \in BOOLEAN}
    /\ pre = rl
    /\ op = "init"
    /\ out = NoOut

Step(name, s2, o) ==
    /\ Len(s2.iterations) <= MaxIter + 1
    /\ rl' = s2
    /\ pre' = rl
    /\ op' = name
    /\ out' = o

CallGetIterations ==
    LET g == getIterations(rl)
    IN  Step("getIterations", g.rl, [NoOut EXCEPT !.adjust = g.i])

CallAddIteration ==
    \E i \in {<<>>, <<"0">>, <<"2">>} :
        Step("addIteration", addIteration(rl, i), [NoOut EXCEPT !.s = i])

CallNegArgument == Step("negArgument", negArgument(rl), NoOut)

NextIter ==
    \/ CallGetIterations
    \/ CallAddIteration
    \/ CallNegArgument

SpecIter == InitIter /\ [][NextIter]_vars

\* A decimal integer: digits after an optional sign; its value, read from
\* the left.
IsDecimal(str) ==
    \E sign \in {<<>>, <<MINUS>>, <<"+">>} :
        /\ Len(str) > Len(sign)
        /\ SubSeq(str, 1, Len(sign)) = sign
        /\ \A k \in (Len(sign) + 1)..Len(str) : str[k] \in Digits

RECURSIVE Horner(_, _)
Horner(acc, ds) ==
    IF ds = <<>> THEN acc ELSE Horner(10 * acc + digitValue(Head(ds)), Tail(ds))

DecimalValue(str) ==
    IF str[1] = MINUS THEN -Horner(0, Tail(str))
    ELSE IF str[1] = "+" THEN Horner(0, Tail(str))
    ELSE Horner(0, str)

\* C15: getIterations returns at least 1 in the Vi main keymaps whatever was
\* accumulated; in the Emacs keymap it returns the integer accumulated when
\* there is one (zero and negatives kept) and 1 otherwise; the accumulator
\* is empty afterwards, and getIterations on an empty accumulator returns 1.
C15_GetIterations ==
    op = "getIterations" =>
        /\ pre.main # emacs => out.adjust >= 1
        /\ (pre.main = emacs /\ IsDecimal(pre.iterations)) =>
              out.adjust = DecimalValue(pre.iterations)
        /\ (pre.main = emacs /\ ~IsDecimal(pre.iterations)) => out.adjust = 1
        /\ rl.iterations = <<>>
        /\ pre.iterations = <<>> => out.adjust = 1

\* A negative count read in the Emacs keymap.
C15_Witness ==
    /\ op = "getIterations"
    /\ pre.main = emacs
    /\ out.adjust < 0

\* C16: addIteration with empty input leaves the accumulator empty, the flag
\* pending or not; with digit d and the flag pending it leaves "-" and d;
\* any other call appends d; the flag is clear afterwards.
C16_AddIteration ==
    op = "addIteration" =>
        /\ ~rl.negativeArg
        /\ rl.iterations =
              IF out.s = <<>> THEN <<>>
              ELSE IF pre.negativeArg THEN <<MINUS>> \o out.s
              ELSE pre.iterations \o out.s

\* --------------------------- SpecQuotes: adjustSurroundQuotes on any input

\* The positions found for the double quotes and for the single quotes, -1
\* for a quote that was not found: the pair chosen.
adjustSurroundQuotes(dBpos, dEpos, sBpos, sEpos) ==
    LET none == [mark |-> -1, cpos |-> -1]
        doubleFirstAndValid ==
            dBpos < sBpos /\ dBpos >= 0 /\ sBpos >= 0 /\ dEpos > sEpos
        singleFirstAndValid ==
            sBpos < dBpos /\ sBpos >= 0 /\ dBpos >= 0 /\ sEpos > dEpos
    IN  IF (sBpos = -1 \/ sEpos = -1) /\ (dBpos = -1 \/ dEpos = -1) THEN none
        ELSE IF (sBpos = -1 \/ sEpos = -1) \/ doubleFirstAndValid
        THEN [mark |-> dBpos, cpos |-> dEpos]
        ELSE IF (dBpos = -1 \/ dEpos = -1) \/ singleFirstAndValid
        THEN [mark |-> sBpos, cpos |-> sEpos]
        ELSE none

MaxPos == 4

InitQuotes ==
    /\ rl = NewInstance(vicmd)
    /\ pre = rl
    /\ op = "init"
    /\ out = NoOut

\* The positions searchSurround gives for the two quotes around one cursor:
\* a begin before its end when both are found, no index holding both
\* quotes, and both begins before both ends.  out keeps the four positions
\* passed and the pair returned.
CallAdjustSurroundQuotes ==
    \E dB \in -1..MaxPos, dE \in -1..MaxPos, sB \in -1..MaxPos, sE \in -1..MaxPos :
        LET q == adjustSurroundQuotes(dB, dE, sB, sE)
        IN  /\ (dB >= 0 /\ dE >= 0) => dB < dE
            /\ (sB >= 0 /\ sE >= 0) => sB < sE
            /\ {dB, dE} \cap {sB, sE} \subseteq {-1}
            /\ (dB >= 0 /\ dE >= 0 /\ sB >= 0 /\ sE >= 0) =>
                  Max(dB, sB) < Min(dE, sE)
            /\ Call("adjustSurroundQuotes", rl,
                    [dBpos |-> dB, dEpos |-> dE, sBpos |-> sB, sEpos |-> sE,
                     mark |-> q.mark, cpos |-> q.cpos])

NextQuotes == CallAdjustSurroundQuotes

SpecQuotes == InitQuotes /\ [][NextQuotes]_vars

\* C17: with both searches successful adjustSurroundQuotes returns the pair
\* with the smaller begin and the larger end; with one successful, that
\* pair; with none, (-1, -1).
C17_AdjustSurroundQuotes ==
    op = "adjustSurroundQuotes" =>
        LET double == <<out.dBpos, out.dEpos>>
            single == <<out.sBpos, out.sEpos>>
            dFound == out.dBpos >= 0 /\ out.dEpos >= 0
            sFound == out.sBpos >= 0 /\ out.sEpos >= 0
            got == <<out.mark, out.cpos>>
        IN  /\ (dFound /\ sFound) =>
                /\ got \in {double, single}
                /\ out.mark = Min(out.dBpos, out.sBpos)
                /\ out.cpos = Max(out.dEpos, out.sEpos)
            /\ (dFound /\ ~sFound) => got = double
            /\ (sFound /\ ~dFound) => got = single
            /\ (~dFound /\ ~sFound) => got = <<-1, -1>>

\* C29: adjustSurroundQuotes answers (-1, -1) only when neither search
\* succeeded: as soon as one pair has both positions found, the pair
\* returned is one of the found pairs, crossing pairs included.
C29_FoundPairReturned ==
    op = "adjustSurroundQuotes" =>
        LET dFound == out.dBpos >= 0 /\ out.dEpos >= 0
            sFound == out.sBpos >= 0 /\ out.sEpos >= 0
            found == (IF dFound THEN {<<out.dBpos, out.dEpos>>} ELSE {})
                     \cup (IF sFound THEN {<<out.sBpos, out.sEpos>>} ELSE {})
        IN  (dFound \/ sFound) => <<out.mark, out.cpos>> \in found

\* ------------------------------------------------- claims on the brace jumps

BracesBefore(s) == {i \in 0..(s.pos - 1) : At(s.line, i) = LBRACE}

BracesAfter(s) == {i \in (s.pos + 1)..(Len(s.line) - 1) : At(s.line, i) = LBRACE}

\* C18: viJumpPreviousBrace returns i - pos for the greatest i < pos holding
\* a brace, index 0 included, and viJumpNextBrace i - pos for the least
\* i > pos holding a brace; each returns 0 when there is no such index.
C18_BraceJumps ==
    /\ op = "viJumpPreviousBrace" =>
          out.adjust = IF BracesBefore(pre) = {} THEN 0
                       ELSE (CHOOSE i \in BracesBefore(pre) :
                                \A j \in BracesBefore(pre) : j <= i) - pre.pos
    /\ op = "viJumpNextBrace" =>
          out.adjust = IF BracesAfter(pre) = {} THEN 0
                       ELSE (CHOOSE i \in BracesAfter(pre) :
                                \A j \in BracesAfter(pre) : i <= j) - pre.pos

\* ------------------------------------------------------- keyword switching

\* The classes of the patterns: [+-], [0-9], [a-zA-Z], [0-9a-zA-Z_] and
\* [^0-9a-zA-Z_ ].
isSign(c) == c \in {"+", MINUS}

isDigit(c) == c \in Digits

isLetter(c) == c \in {"a", "b"}

matchWord(c) == isDigit(c) \/ isLetter(c) \/ c = "_"

matchOther(c) == ~matchWord(c) /\ c # SP

\* rl.lineSlice(n): the runes from the cursor, n of them at most.
lineSlice(s, n) == Slice(s.line, s.pos, Min(Len(s.line), s.pos + n))

\* The pattern selectInWord chose: the word class or the other one.
matchPattern(word, c) == IF word THEN matchWord(c) ELSE matchOther(c)

\* The loops of selectInWord: the first index at or before (after) i whose
\* rune does not match the pattern, -1 (len) when there is none.
RECURSIVE wordBackward(_, _, _)
wordBackward(l, i, word) ==
    IF i < 0 THEN i
    ELSE IF ~matchPattern(word, At(l, i)) THEN i
    ELSE wordBackward(l, i - 1, word)

RECURSIVE wordForward(_, _, _)
wordForward(l, i, word) ==
    IF i >= Len(l) THEN i
    ELSE IF ~matchPattern(word, At(l, i)) THEN i
    ELSE wordForward(l, i + 1, word)

selectInWord(s, cpos) ==
    IF ~IndexOK(s.line, cpos)
    THEN [bpos |-> cpos, epos |-> cpos, fault |-> IndexFault]
    ELSE LET word == matchWord(At(s.line, cpos))
             b == wordBackward(s.line, cpos, word)
             e == wordForward(s.line, cpos, word)
         IN  [bpos |-> b + 1, epos |-> IF e > 0 THEN e - 1 ELSE e,
              fault |-> NoFault]

\* switchKeyword up to its loop: the logical cursor cpos and the span
\* line[bpos:epos] handed to the strategies.
keywordSpan(s) ==
    LET sl == lineSlice(s, 2)
        signed == Len(sl) = 2 /\ isSign(sl[1])
        cpos == IF signed /\ isDigit(sl[2])
                THEN IF s.pos = 0 \/ ~isDigit(At(s.line, s.pos - 1))
                     THEN s.pos + 1 ELSE s.pos
                ELSE IF signed /\ isLetter(sl[2])
                THEN IF s.pos = 0 \/ At(s.line, s.pos - 1) = SP
                     THEN s.pos + 1 ELSE s.pos
                ELSE s.pos
        w == selectInWord(s, cpos)
        epos == w.epos + 1
        bpos == IF w.bpos # 0 /\ isSign(At(s.line, w.bpos - 1))
                THEN w.bpos - 1 ELSE w.bpos
    IN  IF w.fault # NoFault
        THEN [cpos |-> cpos, bpos |-> w.bpos, epos |-> w.epos, fault |-> w.fault]
        ELSE IF ~SliceOK(s.line, bpos, epos)
        THEN [cpos |-> cpos, bpos |-> bpos, epos |-> epos, fault |-> SliceFault]
        ELSE [cpos |-> cpos, bpos |-> bpos, epos |-> epos, fault |-> NoFault]

\* The loop of switchKeyword over what the strategies answered, from the
\* k-th on, with the running bpos.
RECURSIVE switchFrom(_, _, _, _, _)
switchFrom(s, cpos, bpos, switchers, k) ==
    IF k > Len(switchers) THEN s
    ELSE LET sw == switchers[k]
             e == bpos + sw.oepos
             b == bpos + sw.obpos
         IN  IF ~sw.changed THEN switchFrom(s, cpos, bpos, switchers, k + 1)
             ELSE IF cpos < b \/ cpos >= e
             THEN switchFrom(s, cpos, b, switchers, k + 1)
             ELSE IF ~(SliceOK(s.line, 0, b) /\ SliceOK(s.line, e, Len(s.line)))
             THEN Panic(s, SliceFault)
             ELSE setPos(setLine(s, Slice(s.line, 0, b) \o sw.word
                                      \o Slice(s.line, e, Len(s.line))),
                         b + byteLen(sw.word) - 1)

\* switchKeyword leaving the cursor after the replacement, not on its last
\* rune.
switchKeyword_cursorAfter(s0, switchers) ==
    LET s == undoHistoryAppend(s0)
        span == keywordSpan(s)
        r == switchFrom(s, span.cpos, span.bpos, switchers, 1)
    IN  IF span.fault # NoFault THEN Panic(s, span.fault)
        ELSE IF r.fault = NoFault /\ r # s THEN setPos(r, r.pos + 1)
        ELSE r

\* switchKeyword, switchers being what each strategy of keywordSwitchers
\* answers for the span: changed, word, obpos, oepos.
switchKeyword(s0, switchers) ==
    LET s == undoHistoryAppend(s0)
        span == keywordSpan(s)
    IN  IF span.fault # NoFault THEN Panic(s, span.fault)
        ELSE switchFrom(s, span.cpos, span.bpos, switchers, 1)

\* --------------------------- SpecSwitch: switchKeyword on any line and cursor

SwitchChars == {"a", "1", "+", SP}

MaxSwitchers == 2

InitSwitch ==
    /\ rl \in {[NewInstance(emacs) EXCEPT !.line = l, !.pos = p] :
                  l \in LinesOver(SwitchChars, MaxLen), p \in 0..MaxLen}
    /\ rl.pos <= Len(rl.line)
    /\ pre = rl
    /\ op = "init"
    /\ out = NoOut

\* What a strategy may answer for a span of n runes: nothing changed, or a
\* word for the runes obpos to oepos of the span.
Answers(n) ==
    {[changed |-> FALSE, word |-> <<>>, obpos |-> 0, oepos |-> 0]}
    \cup {[changed |-> TRUE, word |-> w, obpos |-> b, oepos |-> e] :
            w \in {<<"b">>, <<"b", "b">>}, b \in 0..n, e \in 1..n}

CallSwitchKeyword ==
    LET span == keywordSpan(rl)
        n == IF span.fault = NoFault THEN span.epos - span.bpos ELSE 0
    IN  \E sws \in LinesOver(Answers(Min(n, 2)), MaxSwitchers) :
            /\ \A k \in 1..Len(sws) : sws[k].obpos < sws[k].oepos
            /\ Call("switchKeyword", switchKeyword(rl, sws),
                    [switchers |-> sws, cpos |-> span.cpos, bpos |-> span.bpos,
                     epos |-> span.epos, fault |-> span.fault])

NextSwitch == CallSwitchKeyword

SpecSwitch == InitSwitch /\ [][NextSwitch]_vars

\* C19: switchKeyword with no strategy that applies completes without an
\* index out of range, on every line and every cursor 0..len, and leaves
\* the line and the cursor as they were, the second time as the first.
C19_SwitchKeywordNoOp ==
    (op = "switchKeyword" /\ \A k \in 1..Len(out.switchers) :
                                 ~out.switchers[k].changed) =>
        /\ rl.fault = NoFault
        /\ rl.line = pre.line /\ rl.pos = pre.pos
        /\ LET again == switchKeyword(rl, out.switchers)
           IN  again.line = rl.line /\ again.pos = rl.pos

\* C20: the strategies are tried in order, each with its offsets counted
\* from the start of the span extracted; the first that changed a sub-span
\* holding the cursor is the only one to modify the line, whatever the
\* strategies before it answered.
C20_SwitchKeywordOrder ==
    (op = "switchKeyword" /\ out.fault = NoFault) =>
        LET sws == out.switchers
            wins(k) == /\ sws[k].changed
                       /\ out.bpos + sws[k].obpos <= out.cpos
                       /\ out.cpos < out.bpos + sws[k].oepos
            winners == {k \in 1..Len(sws) : wins(k)}
            first == CHOOSE k \in winners : \A j \in winners : k <= j
        IN  /\ rl.fault = NoFault
            /\ rl.line =
                 IF winners = {} THEN pre.line
                 ELSE Slice(pre.line, 0, out.bpos + sws[first].obpos)
                      \o sws[first].word
                      \o Slice(pre.line, out.bpos + sws[first].oepos,
                               Len(pre.line))

isSpace(c) == c = SP \/ c = NL

RECURSIVE trimLeft(_)
trimLeft(str) ==
    IF str # <<>> /\ isSpace(Head(str)) THEN trimLeft(Tail(str)) ELSE str

RECURSIVE trimRight(_)
trimRight(str) ==
    IF str # <<>> /\ isSpace(str[Len(str)])
    THEN trimRight(SubSeq(str, 1, Len(str) - 1)) ELSE str

TrimSpace(str) == trimRight(trimLeft(str))

\* A file history: the list in memory and the bytes of the file.
fileHistory(list, file) ==
    [bound |-> TRUE, items |-> list, failAt |-> -1, file |-> file]

\* fileHistory.Write(str), the file opening or not (opened).
fileHistoryWrite(h, str, opened) ==
    LET block == TrimSpace(str)
        list == IF Len(h.items) = 0 \/ h.items[Len(h.items)] # block
                THEN Append(h.items, block) ELSE h.items
    IN  IF opened
        THEN [h EXCEPT !.items = list, !.file = h.file \o block \o <<NL>>]
        ELSE [h EXCEPT !.items = list]

\* openHist: the lines of the file, as bufio.Scanner cuts them (a last line
\* without a newline is a line; nothing after the last newline is not).
RECURSIVE scanLines(_, _)
scanLines(bytes, line) ==
    IF bytes = <<>> THEN (IF line = <<>> THEN <<>> ELSE <<line>>)
    ELSE IF Head(bytes) = NL THEN <<line>> \o scanLines(Tail(bytes), <<>>)
    ELSE scanLines(Tail(bytes), Append(line, Head(bytes)))

openHist(file) == scanLines(file, <<>>)

\* ------------------------------- SpecFile: writes to one history file

MaxWrites == 3

WriteLines == {<<"a">>, <<"b">>, <<"a", SP>>, <<SP, "b">>}

\* A new history file; out.ok tells that every Write so far succeeded.
InitFile ==
    /\ rl = [NewInstance(emacs) EXCEPT !.history = fileHistory(<<>>, <<>>)]
    /\ pre = rl
    /\ op = "init"
    /\ out = [NoOut EXCEPT !.ok = TRUE]

FileWrite(opened) ==
    \E str \in WriteLines :
        /\ rl' = [rl EXCEPT !.history = fileHistoryWrite(rl.history, str, opened)]
        /\ pre' = rl
        /\ op' = "Write"
        /\ out' = [out EXCEPT !.s = str, !.ok = out.ok /\ opened,
                              !.adjust = out.adjust + 1]

WriteSucceeds == out.adjust < MaxWrites /\ FileWrite(TRUE)

\* os.OpenFile fails: the list has the entry, the file has not.
WriteFails == out.adjust < MaxWrites /\ FileWrite(FALSE)

NextFile == WriteSucceeds \/ WriteFails

SpecFile == InitFile /\ [][NextFile]_vars

\* C22: after any sequence of successful Write calls the records of the file
\* are the entries of the list in memory, in order: reloading the file
\* gives the list.
C22_FileMatchesList ==
    (op = "Write" /\ out.ok) => openHist(rl.history.file) = rl.history.items

\* ---------------------------------------------------- history sources

LocalHistory == "local history"

\* rl.histories without the name, and with the name bound to a history.
unbind(histories, name) ==
    [n \in DOMAIN histories \ {name} |-> histories[n]]

bind(histories, name, history) ==
    [n \in DOMAIN histories \cup {name} |->
        IF n = name THEN history ELSE histories[n]]

\* An instance with its history sources: the names in their order, the map
\* from names to histories and the position of the current source.  The
\* default is the in-memory history bound as "local history".
SourceInstance ==
    NewInstance(emacs) @@
    [historyNames |-> <<LocalHistory>>,
     histories |-> bind(<<>>, LocalHistory, "memory"),
     historySourcePos |-> 0]

\* initHistory on an instance that is not inferring a line.
initHistory(s) ==
    [s EXCEPT !.historySourcePos = 0, !.undoLen = 1, !.histPos = 0]

AddHistorySource(s, name, history) ==
    LET one == Cardinality(DOMAIN s.histories) = 1
        s1 == IF one /\ At(s.historyNames, 0) = LocalHistory
              THEN [s EXCEPT !.histories = unbind(s.histories, LocalHistory),
                             !.historyNames = <<>>]
              ELSE s
    IN  IF one /\ ~IndexOK(s.historyNames, 0) THEN Panic(s, IndexFault)
        ELSE [s1 EXCEPT !.historyNames = Append(s1.historyNames, name),
                        !.histories = bind(s1.histories, name, history)]

\* The list of names without the first occurrence of name.
RECURSIVE removeName(_, _)
removeName(names, name) ==
    IF names = <<>> THEN <<>>
    ELSE IF Head(names) = name THEN Tail(names)
    ELSE <<Head(names)>> \o removeName(Tail(names), name)

RECURSIVE deleteSources(_, _)
deleteSources(s, sources) ==
    IF sources = <<>> THEN s
    ELSE deleteSources(
             [s EXCEPT !.histories = unbind(s.histories, Head(sources)),
                       !.historyNames = removeName(s.historyNames, Head(sources))],
             Tail(sources))

DeleteHistorySource(s, sources) ==
    initHistory(IF sources = <<>>
                THEN [s EXCEPT !.histories = <<>>, !.historyNames = <<>>]
                ELSE deleteSources(s, sources))

nextHistorySource(s) ==
    LET p == s.historySourcePos + 1
    IN  [s EXCEPT !.historySourcePos = IF p = Len(s.historyNames) THEN 0 ELSE p]

prevHistorySource(s) ==
    LET p == s.historySourcePos - 1
    IN  [s EXCEPT !.historySourcePos = IF p < 0 THEN Len(s.historyNames) - 1 ELSE p]

\* ------------------------ SpecSources: calls on the history sources

MaxSources == 3

SourceNames == {LocalHistory, "a", "b"}

SourceHistories == {"h1", "h2"}

InitSources ==
    /\ rl = SourceInstance
    /\ pre = rl
    /\ op = "init"
    /\ out = NoOut

\* One call on an instance that has not panicked; pre is the instance
\* before it and out its arguments.
SourceCall(name, s2, o) ==
    /\ rl.fault = NoFault
    /\ Len(s2.historyNames) <= MaxSources
    /\ s2.historySourcePos \in (-MaxSources)..MaxSources
    /\ rl' = s2
    /\ pre' = rl
    /\ op' = name
    /\ out' = o

CallAddHistorySource ==
    \E name \in SourceNames, history \in SourceHistories :
        SourceCall("AddHistorySource", AddHistorySource(rl, name, history),
                   [NoOut EXCEPT !.s = <<name>>, !.word = <<history>>])

CallDeleteHistorySource ==
    \E sources \in LinesOver(SourceNames, 1) :
        SourceCall("DeleteHistorySource", DeleteHistorySource(rl, sources),
                   [NoOut EXCEPT !.s = sources])

CallNextHistorySource ==
    SourceCall("nextHistorySource", nextHistorySource(rl), NoOut)

CallPrevHistorySource ==
    SourceCall("prevHistorySource", prevHistorySource(rl), NoOut)

NextSources ==
    \/ CallAddHistorySource
    \/ CallDeleteHistorySource
    \/ CallNextHistorySource
    \/ CallPrevHistorySource

SpecSources == InitSources /\ [][NextSources]_vars

\* C23: AddHistorySource, when the only source bound is the one named "local
\* history", leaves exactly the new source bound; in every other state it
\* appends the new name to the names, and the sources bound before stay
\* bound as they were.
C23_AddHistorySource ==
    op = "AddHistorySource" =>
        LET name == out.s[1]
            history == out.word[1]
        IN  /\ rl.fault = NoFault
            /\ rl.histories[name] = history
            /\ IF DOMAIN pre.histories = {LocalHistory}
               THEN /\ rl.historyNames = <<name>>
                    /\ DOMAIN rl.histories = {name}
               ELSE /\ rl.historyNames = Append(pre.historyNames, name)
                    /\ DOMAIN rl.histories = DOMAIN pre.histories \cup {name}
                    /\ \A n \in DOMAIN pre.histories :
                          rl.histories[n] = pre.histories[n]

\* C27: whenever a history source is bound, the position of the current
\* source is an index of historyNames.
C27_SourcePosInRange ==
    DOMAIN rl.histories # {} =>
        /\ 0 <= rl.historySourcePos
        /\ rl.historySourcePos < Len(rl.historyNames)

\* C28: the names listed in historyNames are exactly the names bound in
\* histories.
C28_NamesAreKeys ==
    {rl.historyNames[i] : i \in 1..Len(rl.historyNames)} = DOMAIN rl.histories

\* C24: viDeleteByAdjust(d) on a non-empty line with 0 <= pos + d <= len
\* removes the runes between pos and pos + d and no other, and leaves the
\* cursor at the smaller of the two; with d = 0 nothing changes.
C24_DeleteByAdjustSpan ==
    op = "viDeleteByAdjust" =>
        LET lo == Min(pre.pos, pre.pos + out.adjust)
            hi == Max(pre.pos, pre.pos + out.adjust)
        IN  /\ rl.fault = NoFault
            /\ rl.line = Slice(pre.line, 0, lo) \o Slice(pre.line, hi, Len(pre.line))
            /\ rl.pos = lo

\* ------------------------ SpecOverwrite: one session of overwrite mode

MaxKeys == 2

InitOverwrite ==
    /\ rl \in {[NewInstance(k) EXCEPT !.line = l, !.pos = p, !.iterations = a] :
                  k \in {emacs, vicmd}, l \in LinesOver({"a", "b"}, MaxEdit),
                  p \in 0..MaxEdit, a \in {<<>>, <<"2">>}}
    /\ rl.pos <= Len(rl.line)
    /\ pre = rl
    /\ op = "init"
    /\ out = NoOut

\* The keys typed before escape.
CallOverwriteMode ==
    \E keys \in LinesOver({"c", BACKSPACE}, MaxKeys) :
        Call("overwriteMode", overwriteMode(rl, keys), [NoOut EXCEPT !.s = keys])

NextOverwrite == CallOverwriteMode

SpecOverwrite == InitOverwrite /\ [][NextOverwrite]_vars

\* C25: one session of overwrite mode requests one undo snapshot, whatever
\* the replacement keys and backspaces typed before escape.
C25_OverwriteOneSnapshot ==
    op = "overwriteMode" => rl.undoLen = pre.undoLen + 1

\* ------------------ SpecWalk: one walk from any history index, by any step

MaxStep == 2

InitWalk ==
    /\ rl \in {[NewInstance(emacs) EXCEPT !.line = l, !.pos = Len(l),
                                          !.history = h, !.histPos = k] :
                  l \in LinesOver({"a"}, MaxEdit), h \in Histories,
                  k \in -1..MaxHist}
    /\ rl.histPos <= Len(rl.history.items)
    /\ rl.history.failAt < Len(rl.history.items)
    /\ (rl.history.bound \/ (rl.history.items = <<>> /\ rl.history.failAt = -1))
    /\ pre = rl
    /\ op = "init"
    /\ out = NoOut

\* out.ok tells whether GetLine was called, out.bpos with which index.
CallWalkHistory ==
    \E pos \in (-MaxStep)..MaxStep :
        LET history == currentHistory(rl)
            walked == history.bound /\ historyLen(history) > 0
            s3 == walkHistoryIndex(rl, pos)
        IN  Call("walkHistory", walkHistory(rl, pos),
                 [NoOut EXCEPT !.adjust = pos,
                               !.ok = walked /\ s3.histPos > 0,
                               !.bpos = historyLen(history) - s3.histPos])

NextWalk == CallWalkHistory

SpecWalk == InitWalk /\ [][NextWalk]_vars

\* C26: after walkHistory on a history that is not empty, from any index
\* -1..Len and by any step, 0 <= histPos <= Len, and GetLine was called
\* with an index in 0..Len-1 only.
C26_HistPosInRange ==
    (op = "walkHistory" /\ rl.history.bound /\ Len(rl.history.items) > 0) =>
        /\ 0 <= rl.histPos
        /\ rl.histPos <= Len(rl.history.items)
        /\ out.ok => (0 <= out.bpos /\ out.bpos < Len(rl.history.items))

\* A walk past the oldest entry: the index stays at Len and GetLine is
\* called with index 0.
C26_Witness ==
    /\ op = "walkHistory"
    /\ pre.histPos + out.adjust > Len(rl.history.items)
    /\ Len(rl.history.items) > 0
    /\ rl.history.bound
    /\ out.ok
    /\ out.bpos = 0

\* --------------------------- SpecHint: the hint built from completions

\* The escape sequence that dims the text that follows it.
seqDim == <<"ESC", "[", "2", "m">>

\* An instance with its hint area.
HintInstance == NewInstance(emacs) @@ [hint |-> <<>>]

\* The hint after the messages from index i on were appended, each non-empty
\* one followed by a newline.
RECURSIVE appendMessages(_, _, _)
appendMessages(hint, messages, i) ==
    IF i > Len(messages) THEN hint
    ELSE IF messages[i] = <<>> THEN appendMessages(hint, messages, i + 1)
    ELSE appendMessages(hint \o messages[i] \o <<NL>>, messages, i + 1)

\* hintCompletions: the hint is emptied, gets the dimmed usage when there is
\* no candidate, then every non-empty message and a newline; a hint ending
\* with a newline is cut at len-2, and a hint that is the dim sequence alone
\* is emptied.
hintCompletions(s, comps) ==
    LET h1 == IF comps.values = 0 THEN seqDim \o comps.usage ELSE <<>>
        h2 == appendMessages(h1, comps.messages, 1)
        cut == Len(h2) > 0 /\ h2[Len(h2)] = NL
    IN  IF cut /\ ~SliceOK(h2, 0, Len(h2) - 2) THEN Panic(s, SliceFault)
        ELSE LET h3 == IF cut THEN Slice(h2, 0, Len(h2) - 2) ELSE h2
             IN  [s EXCEPT !.hint = IF h3 = seqDim THEN <<>> ELSE h3]

MaxMsgs == 2
MaxMsgLen == 2

HintChars == {"a", "b", NL}

HintStrings == UNION {[1..n -> HintChars] : n \in 0..MaxMsgLen}

HintUsages == {<<>>, <<"u">>}

InitHint ==
    /\ rl \in {[HintInstance EXCEPT !.hint = h] : h \in {<<>>, <<"o">>}}
    /\ pre = rl
    /\ op = "init"
    /\ out = NoOut

\* One call of hintCompletions; out keeps the completions passed.
CallHintCompletions ==
    \E values \in 0..1, usage \in HintUsages,
       messages \in UNION {[1..n -> HintStrings] : n \in 0..MaxMsgs} :
        LET comps == [values |-> values, usage |-> usage, messages |-> messages]
        IN  Call("hintCompletions", hintCompletions(rl, comps), comps)

NextHint == CallHintCompletions

SpecHint == InitHint /\ [][NextHint]_vars

\* The non-empty messages from index i on, joined by newlines.
RECURSIVE joinMessages(_, _, _)
joinMessages(messages, i, first) ==
    IF i > Len(messages) THEN <<>>
    ELSE IF messages[i] = <<>> THEN joinMessages(messages, i + 1, first)
    ELSE (IF first THEN <<>> ELSE <<NL>>) \o messages[i]
         \o joinMessages(messages, i + 1, FALSE)

\* C30: the hint built by hintCompletions is the non-empty messages in order,
\* joined by newlines without a trailing one, after the dim sequence and the
\* usage when there is no candidate (or no hint at all when that leaves the
\* dim sequence alone); no rune of a message is lost.
C30_HintFromMessages ==
    op = "hintCompletions" =>
        LET head == IF out.values = 0 THEN seqDim \o out.usage ELSE <<>>
            want == head \o joinMessages(out.messages, 1, TRUE)
        IN  /\ rl.fault = NoFault
            /\ rl.hint = (IF want = seqDim THEN <<>> ELSE want)

====
